---- MODULE Spec2Model ----
(***************************************************************************)
(* Model of the dot_parser crate of rust_viz: the character-level          *)
(* tokenizer (tokenizer.rs), the graph head parser (parser_head.rs), the   *)
(* top-level parse (parser/mod.rs) and the combinator parsers over         *)
(* ParseBufferItem slices (parser_attribute.rs, parser_a_list.rs, ...).    *)
(*                                                                         *)
(* A character is a one-character string, a Rust String / Vec<char> is a   *)
(* sequence of characters.  A Token is a record [t, v]: t is the variant   *)
(* (Identifier, Keyword, Delimiter) and v its payload, the text of an      *)
(* identifier or the one-element sequence naming the keyword / delimiter.  *)
(***************************************************************************)
EXTENDS Integers, Sequences, FiniteSets, TLC

VARIABLES
    code,                   \* tokenize: the source string (Vec of chars)
    idx,                    \* tokenize: number of chars the for loop has consumed
    parse_line,             \* tokenize: line counter
    col,                    \* tokenize: column counter
    token_buffer,           \* tokenize: pending lexeme
    tokens,                 \* tokenize: tokens emitted so far
    handling_double_quote,  \* tokenize: inside a quoted string
    espace_next_char,       \* tokenize: escape pending
    possible_edge,          \* tokenize: a lone '-' was just read
    tk_result,              \* tokenize: Running / Ok(tokens) / Err(TokenizeError)
    tokens_vec,             \* the token slice handed to the parsers
    ret                     \* the parser call made on tokens_vec and what it returned

vars == <<code, idx, parse_line, col, token_buffer, tokens, handling_double_quote,
          espace_next_char, possible_edge, tk_result, tokens_vec, ret>>

tk_vars == <<code, idx, parse_line, col, token_buffer, tokens, handling_double_quote,
             espace_next_char, possible_edge, tk_result>>

(***************************************************************************)
(* Bounds of the explored inputs.                                          *)
(***************************************************************************)
MaxLen == 4        \* longest source string enumerated character by character
MaxHeadLen == 5    \* longest token slice enumerated over the head alphabet
MaxAListLen == 6   \* longest token slice enumerated over the a_list alphabet
MaxAttrFrags == 6  \* most fragments in a token slice built for attr_list
MaxPortLen == 5    \* longest token slice enumerated over the port alphabet
MaxPortTail == 2   \* most tokens after `:` compass in the slices of all ten points
MaxWordLen == 3    \* longest lexeme enumerated over the lexeme alphabet
MaxInsert == 2     \* most whitespace characters inserted at one position
MaxAttrStmtFrags == 4  \* most fragments after the keyword in a slice built for attr_stmt

\* all sequences over S of length at most n
BoundedSeq(S, n) == UNION {[1..k -> S] : k \in 0..n}

\* s[from..] of a Rust slice, 0-based from
SliceFrom(s, from) == SubSeq(s, from + 1, Len(s))

(***************************************************************************)
(* Characters.                                                             *)
(***************************************************************************)
LowerSeq == <<"a","b","c","d","e","f","g","h","i","j","k","l","m",
              "n","o","p","q","r","s","t","u","v","w","x","y","z">>
UpperSeq == <<"A","B","C","D","E","F","G","H","I","J","K","L","M",
              "N","O","P","Q","R","S","T","U","V","W","X","Y","Z">>
DigitSeq == <<"0","1","2","3","4","5","6","7","8","9">>

Range(s) == {s[i] : i \in 1..Len(s)}

\* the characters of \u{80}..=\u{FF} the model carries (two UTF-8 bytes each)
ExtendedAscii == {"ü", "Ü"}

is_ascii_alphabetic(c) == c \in Range(LowerSeq) \cup Range(UpperSeq)
is_ascii_digit(c) == c \in Range(DigitSeq)

\* char::to_lowercase
CharToLower(c) ==
    IF c \in Range(UpperSeq)
    THEN LowerSeq[CHOOSE i \in 1..Len(UpperSeq) : UpperSeq[i] = c]
    ELSE IF c = "Ü" THEN "ü" ELSE c

\* to_lowercase leaving every character as it is
to_lowercase_identity(s) == s

\* str::to_lowercase
to_lowercase(s) == [i \in 1..Len(s) |-> CharToLower(s[i])]

\* str::len: the length in UTF-8 bytes
RECURSIVE StrLen(_)
StrLen(s) ==
    IF s = <<>> THEN 0
    ELSE (IF Head(s) \in ExtendedAscii THEN 2 ELSE 1) + StrLen(Tail(s))

(***************************************************************************)
(* Tokens.                                                                 *)
(***************************************************************************)
Identifier(text) == [t |-> "Identifier", v |-> text]
Keyword(k) == [t |-> "Keyword", v |-> <<k>>]
Delimiter(d) == [t |-> "Delimiter", v |-> <<d>>]

TokenizeError(line, c, token, reason) ==
    [line |-> line, col |-> c, token |-> token, reason |-> reason]

(***************************************************************************)
(* is_proper_identifier and its three regular expressions.                 *)
(***************************************************************************)
IsAlphaStart(c) == is_ascii_alphabetic(c) \/ c \in ExtendedAscii \/ c = "_"
IsAlphaRest(c) == IsAlphaStart(c) \/ is_ascii_digit(c)

\* ^[a-zA-Z\x80-\xFF_][a-zA-Z\x80-\xFF_0-9]*$
alphabetic_id(s) ==
    /\ Len(s) >= 1
    /\ IsAlphaStart(s[1])
    /\ \A i \in 2..Len(s) : IsAlphaRest(s[i])

AllDigits(s, from, to) == \A i \in from..to : is_ascii_digit(s[i])

\* (?:\.[0-9]+|[0-9]+(?:\.[0-9]*)?) matched against the whole of s
UnsignedNumeral(s) ==
    \/ /\ Len(s) >= 2
       /\ s[1] = "."
       /\ AllDigits(s, 2, Len(s))
    \/ \E k \in 1..Len(s) :
          /\ AllDigits(s, 1, k)
          /\ \/ k = Len(s)
             \/ /\ s[k + 1] = "."
                /\ AllDigits(s, k + 2, Len(s))

\* ^-?(?:\.[0-9]+|[0-9]+(?:\.[0-9]*)?)$
numeral_id(s) ==
    \/ UnsignedNumeral(s)
    \/ /\ Len(s) >= 1
       /\ s[1] = "-"
       /\ UnsignedNumeral(Tail(s))

\* ([^"\\]|\\.)* matched against the whole of s; '.' matches no newline
RECURSIVE QuotedBody(_)
QuotedBody(s) ==
    IF s = <<>> THEN TRUE
    ELSE IF s[1] = "\\"
         THEN /\ Len(s) >= 2
              /\ s[2] # "\n"
              /\ QuotedBody(SubSeq(s, 3, Len(s)))
         ELSE /\ s[1] # "\""
              /\ QuotedBody(Tail(s))

\* ^"([^"\\]|\\.)*"$
quoted_string_id(s) ==
    /\ Len(s) >= 2
    /\ s[1] = "\""
    /\ s[Len(s)] = "\""
    /\ QuotedBody(SubSeq(s, 2, Len(s) - 1))

\* is_proper_identifier without the test for the empty string ""
is_proper_identifier_noEmptyCheck(s) ==
    IF StrLen(s) = 1
    THEN IF is_ascii_alphabetic(s[1]) \/ s[1] \in ExtendedAscii \/ is_ascii_digit(s[1])
         THEN "Ok"
         ELSE "Invalid single character"
    ELSE IF alphabetic_id(s) \/ numeral_id(s) \/ quoted_string_id(s)
         THEN "Ok"
         ELSE "Invalid identifier"

\* Ok(()) is "Ok"; an Err is the reason of its TokenizeError
is_proper_identifier(s) ==
    IF StrLen(s) = 1
    THEN IF is_ascii_alphabetic(s[1]) \/ s[1] \in ExtendedAscii \/ is_ascii_digit(s[1])
         THEN "Ok"
         ELSE "Invalid single character"
    ELSE IF s = <<"\"", "\"">>
         THEN "Empty quotes"
         ELSE IF alphabetic_id(s) \/ numeral_id(s) \/ quoted_string_id(s)
              THEN "Ok"
              ELSE "Invalid identifier"

KeywordOf(word) ==
    CASE word = <<"g","r","a","p","h">> -> <<"Graph">>
      [] word = <<"n","o","d","e">> -> <<"Node">>
      [] word = <<"e","d","g","e">> -> <<"Edge">>
      [] word = <<"d","i","g","r","a","p","h">> -> <<"Digraph">>
      [] word = <<"s","u","b","g","r","a","p","h">> -> <<"SubGraph">>
      [] word = <<"s","t","r","i","c","t">> -> <<"Strict">>
      [] OTHER -> <<>>

\* word with its first and last quote removed when it has both
StripQuotes(word) ==
    IF Len(word) >= 1 /\ word[1] = "\"" /\ word[Len(word)] = "\""
    THEN SubSeq(word, 2, Len(word) - 1)
    ELSE word

\* chars_to_token matching the keywords against the word without its quotes
chars_to_token_unquoteFirst(chars, line, c) ==
    IF chars = <<>>
    THEN [kind |-> "None", tok |-> <<>>, err |-> <<>>]
    ELSE IF KeywordOf(to_lowercase(StripQuotes(chars))) # <<>>
         THEN [kind |-> "Some",
               tok |-> <<[t |-> "Keyword", v |-> KeywordOf(to_lowercase(StripQuotes(chars)))]>>,
               err |-> <<>>]
         ELSE IF is_proper_identifier(chars) # "Ok"
              THEN [kind |-> "Err", tok |-> <<>>,
                    err |-> <<TokenizeError(line, c, chars,
                                            is_proper_identifier(chars))>>]
              ELSE [kind |-> "Some",
                    tok |-> <<Identifier(StripQuotes(chars))>>,
                    err |-> <<>>]

\* Result<Option<Token>>: kind is None, Some (with tok) or Err (with err)
chars_to_token(chars, line, c) ==
    IF chars = <<>>
    THEN [kind |-> "None", tok |-> <<>>, err |-> <<>>]
    ELSE IF KeywordOf(to_lowercase(chars)) # <<>>
         THEN [kind |-> "Some",
               tok |-> <<[t |-> "Keyword", v |-> KeywordOf(to_lowercase(chars))]>>,
               err |-> <<>>]
         ELSE IF is_proper_identifier(chars) # "Ok"
              THEN [kind |-> "Err", tok |-> <<>>,
                    err |-> <<TokenizeError(line, c, chars,
                                            is_proper_identifier(chars))>>]
              ELSE [kind |-> "Some",
                    tok |-> <<Identifier(StripQuotes(chars))>>,
                    err |-> <<>>]

(***************************************************************************)
(* tokenize: one action per branch of the body of `for current_char in     *)
(* code.chars()`, in the order the body tests them, and the return after   *)
(* the loop.                                                               *)
(***************************************************************************)
Running == [status |-> "Running", tokens |-> <<>>, err |-> <<>>]
OkTokens(tks) == [status |-> "Ok", tokens |-> tks, err |-> <<>>]
ErrTokens(e) == [status |-> "Err", tokens |-> <<>>, err |-> <<e>>]

\* the loop has a next character to read
HasChar == tk_result.status = "Running" /\ idx < Len(code)
current_char == code[idx + 1]

\* Vec::pop
Pop(v) == IF v = <<>> THEN v ELSE SubSeq(v, 1, Len(v) - 1)

\* tokens.push(identifier) when chars_to_token gave Some(identifier)
PushSome(tks, r) == IF r.kind = "Some" THEN tks \o r.tok ELSE tks

\* if possible_edge { tokens.pop(); ... }
EdgeOperator ==
    /\ HasChar
    /\ possible_edge
    /\ idx' = idx + 1
    /\ col' = col + 1
    /\ IF current_char = "-"
       THEN /\ tokens' = Append(Pop(tokens), Delimiter("UndirectedEdge"))
            /\ possible_edge' = FALSE
            /\ tk_result' = tk_result
       ELSE IF current_char = ">"
            THEN /\ tokens' = Append(Pop(tokens), Delimiter("DirectedEdge"))
                 /\ possible_edge' = FALSE
                 /\ tk_result' = tk_result
            ELSE /\ tokens' = Pop(tokens)
                 /\ possible_edge' = possible_edge
                 /\ tk_result' = ErrTokens(TokenizeError(parse_line, col + 1,
                                     <<current_char>>, "Invalid edge, expected - or >"))
    /\ UNCHANGED <<code, parse_line, token_buffer, handling_double_quote,
                   espace_next_char, tokens_vec, ret>>

\* if current_char == '\\' { ... }
Backslash ==
    /\ HasChar
    /\ ~possible_edge
    /\ current_char = "\\"
    /\ idx' = idx + 1
    /\ col' = col + 1
    /\ espace_next_char' = TRUE
    /\ token_buffer' = Append(token_buffer, current_char)
    /\ UNCHANGED <<code, parse_line, tokens, handling_double_quote, possible_edge,
                   tk_result, tokens_vec, ret>>

\* if espace_next_char { ... }
Escaped ==
    /\ HasChar
    /\ ~possible_edge
    /\ current_char # "\\"
    /\ espace_next_char
    /\ idx' = idx + 1
    /\ col' = col + 1
    /\ espace_next_char' = FALSE
    /\ token_buffer' = Append(token_buffer, current_char)
    /\ UNCHANGED <<code, parse_line, tokens, handling_double_quote, possible_edge,
                   tk_result, tokens_vec, ret>>

\* none of the three branches above takes the character
Plain == HasChar /\ ~possible_edge /\ current_char # "\\" /\ ~espace_next_char

\* if handling_double_quote && current_char != '\"' { ... }
InQuote ==
    /\ Plain
    /\ handling_double_quote
    /\ current_char # "\""
    /\ idx' = idx + 1
    /\ col' = col + 1
    /\ token_buffer' = Append(token_buffer, current_char)
    /\ UNCHANGED <<code, parse_line, tokens, handling_double_quote, espace_next_char,
                   possible_edge, tk_result, tokens_vec, ret>>

\* if current_char == '\"' && handling_double_quote { ... }
CloseQuote ==
    /\ Plain
    /\ handling_double_quote
    /\ current_char = "\""
    /\ idx' = idx + 1
    /\ col' = col + 1
    /\ handling_double_quote' = FALSE
    /\ LET current_identifier ==
               chars_to_token(Append(token_buffer, current_char), parse_line, col + 1)
       IN  IF current_identifier.kind = "Err"
           THEN /\ tk_result' = ErrTokens(current_identifier.err[1])
                /\ token_buffer' = Append(token_buffer, current_char)
                /\ tokens' = tokens
           ELSE /\ tk_result' = tk_result
                /\ token_buffer' = <<>>
                /\ tokens' = PushSome(tokens, current_identifier)
    /\ UNCHANGED <<code, parse_line, espace_next_char, possible_edge, tokens_vec, ret>>

\* if current_char == '\"' && !handling_double_quote { ... }
OpenQuote ==
    /\ Plain
    /\ ~handling_double_quote
    /\ current_char = "\""
    /\ idx' = idx + 1
    /\ col' = col + 1
    /\ handling_double_quote' = TRUE
    /\ LET prev_tkn == chars_to_token(token_buffer, parse_line, col + 1)
       IN  IF prev_tkn.kind = "Err"
           THEN /\ tk_result' = ErrTokens(prev_tkn.err[1])
                /\ token_buffer' = token_buffer
                /\ tokens' = tokens
           ELSE /\ tk_result' = tk_result
                /\ token_buffer' = <<current_char>>
                /\ tokens' = PushSome(tokens, prev_tkn)
    /\ UNCHANGED <<code, parse_line, espace_next_char, possible_edge, tokens_vec, ret>>

\* DelimOf whose '-' arm gives Delimiter::Space, so that no placeholder is pushed
DelimOf_dashNoToken(c) ==
    CASE c = "\n" -> <<Delimiter("Space")>>
      [] c = " " -> <<Delimiter("Space")>>
      [] c = ":" -> <<Delimiter("Colon")>>
      [] c = "," -> <<Delimiter("Comma")>>
      [] c = ";" -> <<Delimiter("Semicolon")>>
      [] c = "[" -> <<Delimiter("OpenSquareBrace")>>
      [] c = "]" -> <<Delimiter("ClosedSquareBrace")>>
      [] c = "{" -> <<Delimiter("OpenCurlyBrace")>>
      [] c = "}" -> <<Delimiter("ClosedCurlyBrace")>>
      [] c = "=" -> <<Delimiter("Equal")>>
      [] c = "-" -> <<Delimiter("Space")>>
      [] OTHER -> <<>>

\* let delim = match current_char { ... }: the delimiter of a character, <<>> for None
DelimOf(c) ==
    CASE c = "\n" -> <<Delimiter("Space")>>
      [] c = " " -> <<Delimiter("Space")>>
      [] c = ":" -> <<Delimiter("Colon")>>
      [] c = "," -> <<Delimiter("Comma")>>
      [] c = ";" -> <<Delimiter("Semicolon")>>
      [] c = "[" -> <<Delimiter("OpenSquareBrace")>>
      [] c = "]" -> <<Delimiter("ClosedSquareBrace")>>
      [] c = "{" -> <<Delimiter("OpenCurlyBrace")>>
      [] c = "}" -> <<Delimiter("ClosedCurlyBrace")>>
      [] c = "=" -> <<Delimiter("Equal")>>
      [] c = "-" -> <<Delimiter("UndirectedEdge")>>
      [] OTHER -> <<>>

\* the character is outside a quoted string and is no double quote
Unquoted == Plain /\ ~handling_double_quote /\ current_char # "\""

\* match delim { Some(delimiter) => { ... } }
DelimiterChar ==
    /\ Unquoted
    /\ DelimOf(current_char) # <<>>
    /\ idx' = idx + 1
    /\ LET line1 == IF current_char = "\n" THEN parse_line + 1 ELSE parse_line
           col1 == IF current_char = "\n" THEN 0 ELSE col + 1
           prev_tkn == chars_to_token(token_buffer, line1, col1)
           delimiter == DelimOf(current_char)[1]
       IN  /\ parse_line' = line1
           /\ col' = col1
           /\ possible_edge' = (current_char = "-")
           /\ IF prev_tkn.kind = "Err"
              THEN /\ tk_result' = ErrTokens(prev_tkn.err[1])
                   /\ token_buffer' = token_buffer
                   /\ tokens' = tokens
              ELSE /\ tk_result' = tk_result
                   /\ token_buffer' = <<>>
                   /\ tokens' = IF delimiter # Delimiter("Space")
                                THEN Append(PushSome(tokens, prev_tkn), delimiter)
                                ELSE PushSome(tokens, prev_tkn)
    /\ UNCHANGED <<code, handling_double_quote, espace_next_char, tokens_vec, ret>>

\* match delim { _ => token_buffer.push(current_char) }
BufferChar ==
    /\ Unquoted
    /\ DelimOf(current_char) = <<>>
    /\ idx' = idx + 1
    /\ col' = col + 1
    /\ token_buffer' = Append(token_buffer, current_char)
    /\ UNCHANGED <<code, parse_line, tokens, handling_double_quote, espace_next_char,
                   possible_edge, tk_result, tokens_vec, ret>>

\* Ok(tokens) after the loop; the caller hands the tokens to the parser
TokenizeReturn ==
    /\ tk_result.status = "Running"
    /\ idx = Len(code)
    /\ tk_result' = OkTokens(tokens)
    /\ tokens_vec' = tokens
    /\ UNCHANGED <<code, idx, parse_line, col, token_buffer, tokens,
                   handling_double_quote, espace_next_char, possible_edge, ret>>

(***************************************************************************)
(* tokenize as a function of the source: the loop body as one step on the  *)
(* record of the loop's variables, folded over the characters.  It gives   *)
(* the tokens of a second source next to the one the actions run on.       *)
(***************************************************************************)
\* the variables of tokenize before the loop
tokenize_start ==
    [parse_line |-> 0, col |-> 0, token_buffer |-> <<>>, tokens |-> <<>>,
     handling_double_quote |-> FALSE, espace_next_char |-> FALSE,
     possible_edge |-> FALSE, result |-> Running]

\* chars_to_token(token_buffer, ..)?, then the push of the identifier and of then_push
FlushThen(st, chars, line, c, then_buffer, then_push) ==
    LET r == chars_to_token(chars, line, c)
    IN  IF r.kind = "Err"
        THEN [st EXCEPT !.parse_line = line, !.col = c, !.result = ErrTokens(r.err[1])]
        ELSE [st EXCEPT !.parse_line = line, !.col = c,
                        !.token_buffer = then_buffer,
                        !.tokens = PushSome(st.tokens, r) \o then_push]

\* one pass of the body of `for current_char in code.chars()`
tokenize_step(st, ch) ==
    IF st.possible_edge
    THEN IF ch = "-"
         THEN [st EXCEPT !.col = @ + 1, !.possible_edge = FALSE,
                         !.tokens = Append(Pop(@), Delimiter("UndirectedEdge"))]
         ELSE IF ch = ">"
              THEN [st EXCEPT !.col = @ + 1, !.possible_edge = FALSE,
                              !.tokens = Append(Pop(@), Delimiter("DirectedEdge"))]
              ELSE [st EXCEPT !.col = @ + 1, !.tokens = Pop(@),
                              !.result = ErrTokens(TokenizeError(st.parse_line, st.col + 1,
                                             <<ch>>, "Invalid edge, expected - or >"))]
    ELSE IF ch = "\\"
    THEN [st EXCEPT !.col = @ + 1, !.espace_next_char = TRUE,
                    !.token_buffer = Append(@, ch)]
    ELSE IF st.espace_next_char
    THEN [st EXCEPT !.col = @ + 1, !.espace_next_char = FALSE,
                    !.token_buffer = Append(@, ch)]
    ELSE IF st.handling_double_quote /\ ch # "\""
    THEN [st EXCEPT !.col = @ + 1, !.token_buffer = Append(@, ch)]
    ELSE IF ch = "\"" /\ st.handling_double_quote
    THEN LET closed == FlushThen(st, Append(st.token_buffer, ch), st.parse_line,
                                 st.col + 1, <<>>, <<>>)
         IN  [closed EXCEPT !.handling_double_quote = FALSE,
                            !.token_buffer = IF closed.result.status = "Err"
                                             THEN Append(st.token_buffer, ch)
                                             ELSE <<>>]
    ELSE IF ch = "\""
    THEN [FlushThen(st, st.token_buffer, st.parse_line, st.col + 1, <<ch>>, <<>>)
             EXCEPT !.handling_double_quote = TRUE]
    ELSE IF DelimOf(ch) # <<>>
    THEN [FlushThen(st, st.token_buffer,
                    IF ch = "\n" THEN st.parse_line + 1 ELSE st.parse_line,
                    IF ch = "\n" THEN 0 ELSE st.col + 1,
                    <<>>,
                    IF DelimOf(ch)[1] # Delimiter("Space") THEN DelimOf(ch) ELSE <<>>)
             EXCEPT !.possible_edge = (ch = "-")]
    ELSE [st EXCEPT !.col = @ + 1, !.token_buffer = Append(@, ch)]

\* the loop's variables after n characters of source, or at the `?` that left it
RECURSIVE tokenize_after(_, _)
tokenize_after(source, n) ==
    IF n = 0
    THEN tokenize_start
    ELSE LET st == tokenize_after(source, n - 1)
         IN  IF st.result.status = "Err" THEN st ELSE tokenize_step(st, source[n])

\* tokenize(source)
tokenize(source) ==
    LET st == tokenize_after(source, Len(source))
    IN  IF st.result.status = "Err" THEN st.result ELSE OkTokens(st.tokens)

\* the actions and the function run the same loop
TokenizeAgrees ==
    tk_result.status # "NotRun"
        => LET st == tokenize_after(code, idx)
           IN  /\ st.parse_line = parse_line
               /\ st.col = col
               /\ st.token_buffer = token_buffer
               /\ st.tokens = tokens
               /\ st.handling_double_quote = handling_double_quote
               /\ st.espace_next_char = espace_next_char
               /\ st.possible_edge = possible_edge
               /\ IF tk_result.status = "Ok"
                  THEN tk_result = tokenize(code)
                  ELSE st.result = tk_result

(***************************************************************************)
(* Parser values.  Option<T> is <<>> for None and <<x>> for Some(x).  A    *)
(* ParseBufferItem::Token(tok) is the token record itself; a               *)
(* ParseBufferItem::ParseOutput(..) is a record whose t is "Compass" or    *)
(* "Port", which no pattern over tokens matches.                           *)
(***************************************************************************)
None == <<>>
Some(x) == <<x>>

ParserError(token, reason) == [token |-> token, reason |-> reason]

\* Result<DotGraph>, and what a panic leaves instead of a Result
OkGraph(dg) == [status |-> "Ok", dg |-> <<dg>>, err |-> <<>>]
ErrGraph(e) == [status |-> "Err", dg |-> <<>>, err |-> <<e>>]
Panic == [status |-> "Panic", dg |-> <<>>, err |-> <<>>]

DotGraph(graph_type, strict_mode, id, statements) ==
    [graph_type |-> graph_type, strict_mode |-> strict_mode, id |-> id,
     statements |-> statements]

\* the statement types of grammer.rs an edge statement is made of
NodeId(id, port) == [id |-> id, port |-> port]
EdgeStmtSide_NodeId(node_id) == [side |-> "NodeId", node |-> node_id]
EdgeRhs(edge_op, edge_to, edge_optional) ==
    [edge_op |-> edge_op, edge_to |-> edge_to, edge_optional |-> edge_optional]
EdgeStmt(edge_lhs, edge_rhs, attributes) ==
    [stmt |-> "EdgeStmt", edge_lhs |-> edge_lhs, edge_rhs |-> edge_rhs,
     attributes |-> attributes]

(***************************************************************************)
(* parse_head.  `tokens` is an iterator over tokens_vec: an iterator       *)
(* position p means p tokens were taken with next(); next().unwrap() and   *)
(* last().unwrap() panic when nothing is left.                             *)
(***************************************************************************)
\* if tkn == Token::Keyword(Keyword::Strict) { dg.strict_mode = true; ... }
HeadStrictMode(tv) == tv[1] = Keyword("Strict")

\* HeadGraphType with the Digraph arm setting GraphType::Graph
HeadGraphType_sameType(tkn) ==
    IF tkn = Keyword("Graph") \/ tkn = Keyword("Digraph") THEN Some("Graph") ELSE None

\* match tkn { Keyword::Graph => ..., Keyword::Digraph => ..., _ => bail }
HeadGraphType(tkn) ==
    IF tkn = Keyword("Graph") THEN Some("Graph")
    ELSE IF tkn = Keyword("Digraph") THEN Some("Digraph")
    ELSE None

\* let last = tokens.last().unwrap().clone(); ... Ok(dg)
HeadLast(tv, p, dg) ==
    IF p >= Len(tv)
    THEN Panic
    ELSE IF tv[Len(tv)] # Delimiter("ClosedCurlyBrace")
         THEN ErrGraph(ParserError(Some(tv[Len(tv)]), "Expected } at the end"))
         ELSE OkGraph(dg)

\* tkn = tokens.next().unwrap().clone(); match tkn { Identifier(id) => ..., '{' => ..., _ => bail }
HeadName(tv, p, strict_mode, graph_type) ==
    IF p >= Len(tv)
    THEN Panic
    ELSE LET tkn == tv[p + 1]
         IN  IF tkn.t = "Identifier"
             THEN IF p + 1 >= Len(tv)
                  THEN Panic
                  ELSE IF tv[p + 2] # Delimiter("OpenCurlyBrace")
                       THEN ErrGraph(ParserError(Some(tv[p + 2]),
                                                 "Expected { after graph's name"))
                       ELSE HeadLast(tv, p + 2,
                                DotGraph(graph_type, strict_mode, Some(tkn.v), Some(<<>>)))
             ELSE IF tkn = Delimiter("OpenCurlyBrace")
                  THEN HeadLast(tv, p + 1,
                           DotGraph(graph_type, strict_mode, None, Some(<<>>)))
                  ELSE ErrGraph(ParserError(Some(tkn),
                           "After graph/digraph, we expect graph's name or open brace"))

parse_head(tv) ==
    IF Len(tv) < 3
    THEN ErrGraph(ParserError(None, "Need atleast 3 tokens"))
    ELSE LET strict_mode == HeadStrictMode(tv)
             p == IF strict_mode THEN 2 ELSE 1
             tkn == tv[p]
         IN  IF HeadGraphType(tkn) = None
             THEN ErrGraph(ParserError(Some(tkn),
                      "Grpah should start with Keywords: strict/graph/digraph"))
             ELSE HeadName(tv, p, strict_mode, HeadGraphType(tkn))

(***************************************************************************)
(* parse of parser/mod.rs.                                                 *)
(***************************************************************************)
\* let start_idx = match (dg.strict_mode, dg.id.clone()) { ... }
start_idx(dg) ==
    IF dg.strict_mode
    THEN (IF dg.id # None THEN 4 ELSE 3)
    ELSE (IF dg.id # None THEN 3 ELSE 2)

\* let _stmt_tokens = &tokens_vec[start_idx..tokens_vec.len()]
stmt_tokens(tv, dg) == SubSeq(tv, start_idx(dg) + 1, Len(tv))

\* parse_head(tokens_vec).unwrap(); the slice; Ok(dg)
parse(tv) ==
    LET head == parse_head(tv)
    IN  IF head.status # "Ok"
        THEN Panic
        ELSE IF start_idx(head.dg[1]) > Len(tv)
             THEN Panic
             ELSE OkGraph(head.dg[1])

(***************************************************************************)
(* Attribute::parse and AList::parse.  A ParseResult is                    *)
(* [result, remaining]; the parsers return Option<ParseResult>.            *)
(***************************************************************************)
ParseResult(result, remaining) == [result |-> result, remaining |-> remaining]

Attribute(lhs, rhs) == [lhs |-> lhs, rhs |-> rhs]

\* input.get(i), 0-based
Get(input, i) == IF i < Len(input) THEN Some(input[i + 1]) ELSE None

IsIdentifier(opt) == opt # None /\ opt[1].t = "Identifier"

Attribute_parse(input) ==
    LET first == Get(input, 0)
        second == Get(input, 1)
        third == Get(input, 2)
    IN  IF /\ IsIdentifier(first)
           /\ second = Some(Delimiter("Equal"))
           /\ IsIdentifier(third)
        THEN Some(ParseResult(Attribute(first[1].v, third[1].v), SliceFrom(input, 3)))
        ELSE None

\* has_more set whatever input.get(3) is
has_more_always(input) == TRUE

\* match input.get(3) { Some(';') | Some(',') => has_more = true, _ => {} }
has_more(input) ==
    \/ Get(input, 3) = Some(Delimiter("Semicolon"))
    \/ Get(input, 3) = Some(Delimiter("Comma"))

RECURSIVE AList_parse(_)
AList_parse(input) ==
    IF Len(input) < 3
    THEN None
    ELSE LET attribute == Attribute_parse(SubSeq(input, 1, 3))
         IN  IF attribute = None
             THEN None
             ELSE LET attributes == <<attribute[1].result>>
                  IN  IF ~has_more(input)
                      THEN Some(ParseResult([items |-> attributes], SliceFrom(input, 3)))
                      ELSE LET rest == SliceFrom(input, 4)
                               next == AList_parse(rest)
                           IN  IF next = None
                               THEN Some(ParseResult([items |-> attributes], rest))
                               ELSE Some(ParseResult(
                                        [items |-> attributes \o next[1].result.items],
                                        next[1].remaining))

(***************************************************************************)
(* AttrList::parse.                                                        *)
(***************************************************************************)
\* if input.len() < 5 { return None; }
AttrListMinLen == 5

RECURSIVE AttrList_parse(_)
AttrList_parse(input) ==
    IF Len(input) < AttrListMinLen
    THEN None
    ELSE IF input[1] # Delimiter("OpenSquareBrace")
         THEN None
         ELSE LET a_list == AList_parse(SliceFrom(input, 1))
              IN  IF a_list = None
                  THEN None
                  ELSE LET items == a_list[1].result.items
                           closing == a_list[1].remaining
                       IN  IF closing = <<>>
                           THEN None
                           ELSE IF closing[1] # Delimiter("ClosedSquareBrace")
                                THEN None
                                ELSE LET rest == SliceFrom(closing, 1)
                                         next == AttrList_parse(rest)
                                     IN  IF next = None
                                         THEN Some(ParseResult([items |-> items], rest))
                                         ELSE Some(ParseResult(
                                                  [items |-> items \o next[1].result.items],
                                                  next[1].remaining))

(***************************************************************************)
(* Compass::parse, Port::parse and NodeId::parse.                          *)
(***************************************************************************)
\* match val.as_str() { "n" => Some(Compass::N), ... , _ => None }
CompassOf(val) ==
    CASE val = <<"n">> -> Some("N")
      [] val = <<"n","e">> -> Some("Ne")
      [] val = <<"e">> -> Some("E")
      [] val = <<"s","e">> -> Some("Se")
      [] val = <<"s">> -> Some("S")
      [] val = <<"s","w">> -> Some("Sw")
      [] val = <<"w">> -> Some("W")
      [] val = <<"n","w">> -> Some("Nw")
      [] val = <<"c">> -> Some("C")
      [] val = <<"_">> -> Some("Underscore")
      [] OTHER -> None

\* Compass::parse returning the whole input as remaining
Compass_parse_noConsume(input) ==
    IF input = <<>>
    THEN None
    ELSE IF input[1].t # "Identifier"
         THEN None
         ELSE IF CompassOf(input[1].v) = None
              THEN None
              ELSE Some(ParseResult(CompassOf(input[1].v)[1], input))

Compass_parse(input) ==
    IF input = <<>>
    THEN None
    ELSE IF input[1].t # "Identifier"
         THEN None
         ELSE IF CompassOf(input[1].v) = None
              THEN None
              ELSE Some(ParseResult(CompassOf(input[1].v)[1], SliceFrom(input, 1)))

Port(id, compass) == [id |-> id, compass |-> compass]

\* PortWithId with the id-only arm leaving the id out
PortWithId_noId(input, second_as_id) ==
    LET third == Get(input, 2)
        fourth == Get(input, 3)
    IN  IF third = Some(Delimiter("Colon")) /\ IsIdentifier(fourth)
        THEN LET fourth_as_compass == Compass_parse(<<fourth[1]>>)
             IN  IF fourth_as_compass # None
                 THEN Some(ParseResult(
                          Port(Some(second_as_id), Some(fourth_as_compass[1].result)),
                          SliceFrom(input, 4)))
                 ELSE None
        ELSE Some(ParseResult(Port(None, None), SliceFrom(input, 2)))

\* if second_as_id.is_some() { match (third, fourth) { ... } }  None
PortWithId(input, second_as_id) ==
    LET third == Get(input, 2)
        fourth == Get(input, 3)
    IN  IF third = Some(Delimiter("Colon")) /\ IsIdentifier(fourth)
        THEN LET fourth_as_compass == Compass_parse(<<fourth[1]>>)
             IN  IF fourth_as_compass # None
                 THEN Some(ParseResult(
                          Port(Some(second_as_id), Some(fourth_as_compass[1].result)),
                          SliceFrom(input, 4)))
                 ELSE None
        ELSE Some(ParseResult(Port(Some(second_as_id), None), SliceFrom(input, 2)))

\* PortCompassFirst with the id interpretation of the second item winning
PortCompassFirst_idFirst(input, second_as_compass, second_as_id) ==
    IF second_as_id # None
    THEN PortWithId(input, second_as_id[1])
    ELSE Some(ParseResult(Port(None, Some(second_as_compass[1].result)),
                          SliceFrom(input, 2)))

\* if second_as_compass.is_some() { return ... }  if second_as_id.is_some() { ... }
PortCompassFirst(input, second_as_compass, second_as_id) ==
    IF second_as_compass # None
    THEN Some(ParseResult(Port(None, Some(second_as_compass[1].result)),
                          SliceFrom(input, 2)))
    ELSE PortWithId(input, second_as_id[1])

Port_parse(input) ==
    IF Len(input) < 2
    THEN None
    ELSE IF input[1] # Delimiter("Colon")
         THEN None
         ELSE LET second == input[2]
                  second_as_compass == Compass_parse(<<second>>)
                  second_as_id == IF second.t = "Identifier" THEN Some(second.v) ELSE None
              IN  IF second_as_compass = None /\ second_as_id = None
                  THEN None
                  ELSE PortCompassFirst(input, second_as_compass, second_as_id)

NodeId_parse(input) ==
    IF input = <<>>
    THEN None
    ELSE IF input[1].t # "Identifier"
         THEN None
         ELSE LET id == input[1].v
                  rest == SliceFrom(input, 1)
                  is_port == Port_parse(rest)
              IN  IF is_port = None
                  THEN Some(ParseResult(NodeId(id, None), rest))
                  ELSE Some(ParseResult(NodeId(id, Some(is_port[1].result)),
                                        is_port[1].remaining))

\* AttrStmtKind of the keyword an attr_stmt starts with
AttrStmtKindOf(tok) ==
    CASE tok = Keyword("Graph") -> Some("Graph")
      [] tok = Keyword("Node") -> Some("Node")
      [] tok = Keyword("Edge") -> Some("Edge")
      [] OTHER -> None

AttrStmt(kind, attr_list) == [kind |-> kind, attr_list |-> attr_list]

AttrStmt_parse(input) ==
    IF input = <<>>
    THEN None
    ELSE IF AttrStmtKindOf(input[1]) = None
         THEN None
         ELSE LET attr_list == AttrList_parse(SliceFrom(input, 1))
              IN  IF attr_list = None
                  THEN None
                  ELSE Some(ParseResult(
                           AttrStmt(AttrStmtKindOf(input[1])[1], attr_list[1].result),
                           attr_list[1].remaining))

(***************************************************************************)
(* The range expressions of the parsers.  input[from..] and input[0..to]   *)
(* panic when the bound is past the end of the slice; each ..._in_bounds   *)
(* says that every range expression the parser evaluates on input, in its  *)
(* own body and in the parsers it calls, is within the slice.              *)
(***************************************************************************)
InRange(slice, bound) == bound <= Len(slice)

\* remaining: input[1..]
Compass_in_bounds(input) == Compass_parse(input) # None => InRange(input, 1)

\* remaining: input[3..]
Attribute_in_bounds(input) == Attribute_parse(input) # None => InRange(input, 3)

\* &input[0..3], input[3..], &input[4..]
RECURSIVE AList_in_bounds(_)
AList_in_bounds(input) ==
    IF Len(input) < 3
    THEN TRUE
    ELSE /\ InRange(input, 3)
         /\ Attribute_in_bounds(SubSeq(input, 1, 3))
         /\ IF Attribute_parse(SubSeq(input, 1, 3)) = None
            THEN TRUE
            ELSE IF ~has_more(input)
                 THEN InRange(input, 3)
                 ELSE InRange(input, 4) /\ AList_in_bounds(SliceFrom(input, 4))

\* &input[1..], &rest[1..]
RECURSIVE AttrList_in_bounds(_)
AttrList_in_bounds(input) ==
    IF Len(input) < AttrListMinLen
    THEN TRUE
    ELSE IF input[1] # Delimiter("OpenSquareBrace")
         THEN TRUE
         ELSE /\ InRange(input, 1)
              /\ AList_in_bounds(SliceFrom(input, 1))
              /\ LET a_list == AList_parse(SliceFrom(input, 1))
                 IN  IF a_list = None
                     THEN TRUE
                     ELSE IF a_list[1].remaining = <<>>
                             \/ a_list[1].remaining[1] # Delimiter("ClosedSquareBrace")
                          THEN TRUE
                          ELSE /\ InRange(a_list[1].remaining, 1)
                               /\ AttrList_in_bounds(SliceFrom(a_list[1].remaining, 1))

\* input[2..] and input[4..] of the three returns
Port_in_bounds(input) ==
    Port_parse(input) # None
        => IF Port_parse(input)[1].result.id # None
              /\ Port_parse(input)[1].result.compass # None
           THEN InRange(input, 4)
           ELSE InRange(input, 2)

\* &input[1..]
NodeId_in_bounds(input) ==
    (input # <<>> /\ input[1].t = "Identifier")
        => InRange(input, 1) /\ Port_in_bounds(SliceFrom(input, 1))

\* &input[1..]
AttrStmt_in_bounds(input) ==
    (input # <<>> /\ AttrStmtKindOf(input[1]) # None)
        => InRange(input, 1) /\ AttrList_in_bounds(SliceFrom(input, 1))

(***************************************************************************)
(* The calls a user of the crate makes on a token slice.                   *)
(***************************************************************************)
NoCall == [fn |-> "none", out |-> <<>>]

\* a token slice is at hand and no parser was called on it yet
CanCall == tk_result.status \in {"Ok", "NotRun"} /\ ret = NoCall

CallParseHead ==
    /\ CanCall
    /\ ret' = [fn |-> "parse_head", out |-> parse_head(tokens_vec)]
    /\ UNCHANGED <<tk_vars, tokens_vec>>

CallParse ==
    /\ CanCall
    /\ ret' = [fn |-> "parse", out |-> parse(tokens_vec)]
    /\ UNCHANGED <<tk_vars, tokens_vec>>

CallAttributeParse ==
    /\ CanCall
    /\ ret' = [fn |-> "Attribute::parse", out |-> Attribute_parse(tokens_vec)]
    /\ UNCHANGED <<tk_vars, tokens_vec>>

CallAListParse ==
    /\ CanCall
    /\ ret' = [fn |-> "AList::parse", out |-> AList_parse(tokens_vec)]
    /\ UNCHANGED <<tk_vars, tokens_vec>>

CallAttrListParse ==
    /\ CanCall
    /\ ret' = [fn |-> "AttrList::parse", out |-> AttrList_parse(tokens_vec)]
    /\ UNCHANGED <<tk_vars, tokens_vec>>

CallCompassParse ==
    /\ CanCall
    /\ ret' = [fn |-> "Compass::parse", out |-> Compass_parse(tokens_vec)]
    /\ UNCHANGED <<tk_vars, tokens_vec>>

CallPortParse ==
    /\ CanCall
    /\ ret' = [fn |-> "Port::parse", out |-> Port_parse(tokens_vec)]
    /\ UNCHANGED <<tk_vars, tokens_vec>>

CallNodeIdParse ==
    /\ CanCall
    /\ ret' = [fn |-> "NodeId::parse", out |-> NodeId_parse(tokens_vec)]
    /\ UNCHANGED <<tk_vars, tokens_vec>>

CallAttrStmtParse ==
    /\ CanCall
    /\ ret' = [fn |-> "AttrStmt::parse", out |-> AttrStmt_parse(tokens_vec)]
    /\ UNCHANGED <<tk_vars, tokens_vec>>

\* a lexeme is at hand and no function was called on it yet
CanCallChars == tk_result.status = "NotRun" /\ ret = NoCall

CallCharsToToken ==
    /\ CanCallChars
    /\ ret' = [fn |-> "chars_to_token", out |-> chars_to_token(code, parse_line, col)]
    /\ UNCHANGED <<tk_vars, tokens_vec>>

CallIsProperIdentifier ==
    /\ CanCallChars
    /\ ret' = [fn |-> "is_proper_identifier", out |-> <<is_proper_identifier(code)>>]
    /\ UNCHANGED <<tk_vars, tokens_vec>>

(***************************************************************************)
(* Inputs.                                                                 *)
(***************************************************************************)
\* characters of the sources enumerated up to MaxLen
Chars == {"a", "-", ">", "\"", "\\", " ", ";", "\n", "}"}

Str_graph == <<"g","r","a","p","h">>
Str_strict == <<"s","t","r","i","c","t">>

\* the documents of the end-to-end scenarios and of the tokenizer's tests
Doc_graph_edges ==
    Str_graph \o <<" ","{"," ","a"," ","-","-"," ","b",";"," ",
                   "b"," ","-","-"," ","c",";"," ","}">>
Doc_strict_empty == Str_strict \o <<" ">> \o Str_graph \o <<" ","{"," ","}">>
Doc_no_closing_brace == Str_graph \o <<" ","{"," ">>
Doc_unterminated_quote ==
    Str_graph \o <<" ","{"," ","A"," ","[","l","a","b","e","l","=",
                   "\"","o","o","p","s","]"," ","}">>
Doc_extra_brace == Str_graph \o <<" ","{"," ","}"," ","}">>
Doc_a_list == <<"a","=","b"," ","c","=","d">>
Doc_a_arrow_b == <<"a","-",">","b">>
Doc_trailing_dash == <<"a"," ","-">>
Doc_escaped_backslash == <<"\"","a","\\","\\","\"">>
Doc_quoted_mixed == <<"\"","a"," ","-",";","\\","\"","a","}","\"">>
Doc_negative_numeral == <<"x","=","-","1",";">>
Doc_port_underscore == <<"a",":","_",";">>
Doc_tabs == <<"a","\t","=","\t","b",";">>
Doc_spaces == <<"a"," ","="," ","b",";">>
Doc_quoted_graph == <<"\"">> \o Str_graph \o <<"\"">>
Doc_quoted_Node == <<"\"","N","o","d","e","\"">>

Documents == {Doc_graph_edges, Doc_strict_empty, Doc_no_closing_brace,
              Doc_unterminated_quote, Doc_extra_brace, Doc_a_list, Doc_a_arrow_b,
              Doc_trailing_dash, Doc_escaped_backslash, Doc_quoted_mixed,
              Doc_negative_numeral, Doc_port_underscore, Doc_tabs, Doc_spaces,
              Doc_quoted_graph, Doc_quoted_Node}

Sources == BoundedSeq(Chars, MaxLen) \cup Documents

\* token alphabets of the slices enumerated for the head and for a_list
HeadTokens == {Keyword("Strict"), Keyword("Graph"), Keyword("Digraph"),
               Identifier(<<"G">>), Delimiter("OpenCurlyBrace"),
               Delimiter("ClosedCurlyBrace")}
AListTokens == {Identifier(<<"a">>), Identifier(<<"b">>), Delimiter("Equal"),
                Delimiter("Semicolon"), Delimiter("Comma")}


RECURSIVE Flatten(_)
Flatten(ss) == IF ss = <<>> THEN <<>> ELSE Head(ss) \o Flatten(Tail(ss))

\* the slices for attr_list are made of brackets, a separator and two attributes
AttrFragments ==
    {<<Delimiter("OpenSquareBrace")>>, <<Delimiter("ClosedSquareBrace")>>,
     <<Delimiter("Semicolon")>>,
     <<Identifier(<<"a">>), Delimiter("Equal"), Identifier(<<"b">>)>>,
     <<Identifier(<<"b">>), Delimiter("Equal"), Identifier(<<"a">>)>>}
AttrListInputs == {Flatten(fs) : fs \in BoundedSeq(AttrFragments, MaxAttrFrags)}

\* the ten spellings of a compass point
CompassNames == {<<"n">>, <<"n","e">>, <<"e">>, <<"s","e">>, <<"s">>, <<"s","w">>,
                 <<"w">>, <<"n","w">>, <<"c">>, <<"_">>}

\* the port alphabet: two compass points, an upper-case one, a plain id, others
PortTokens == {Delimiter("Colon"), Identifier(<<"n">>), Identifier(<<"s","w">>),
               Identifier(<<"N">>), Identifier(<<"p">>), Delimiter("Semicolon")}
PortTailTokens == {Delimiter("Colon"), Identifier(<<"n">>), Identifier(<<"p">>)}
PortInputs ==
    BoundedSeq(PortTokens, MaxPortLen)
    \cup {<<Delimiter("Colon"), Identifier(c)>> \o tail :
              c \in CompassNames, tail \in BoundedSeq(PortTailTokens, MaxPortTail)}

\* char::to_uppercase on the letters of LowerSeq
CharToUpper(c) ==
    IF c \in Range(LowerSeq)
    THEN UpperSeq[CHOOSE i \in 1..Len(LowerSeq) : LowerSeq[i] = c]
    ELSE c

\* every upper/lower case variant of the word w
CaseVariants(w) ==
    {[i \in 1..Len(w) |-> IF i \in U THEN CharToUpper(w[i]) ELSE w[i]] :
        U \in SUBSET (1..Len(w))}

\* the six keywords: lower-case spelling and Keyword variant
KeywordWords ==
    {[word |-> Str_graph, name |-> "Graph"],
     [word |-> <<"n","o","d","e">>, name |-> "Node"],
     [word |-> <<"e","d","g","e">>, name |-> "Edge"],
     [word |-> <<"d","i">> \o Str_graph, name |-> "Digraph"],
     [word |-> <<"s","u","b">> \o Str_graph, name |-> "SubGraph"],
     [word |-> Str_strict, name |-> "Strict"]}

\* characters of the lexemes enumerated up to MaxWordLen
WordChars == {"a", "G", "_", "1", "-", ".", "\"", "\\", "ü"}

Lexemes ==
    BoundedSeq(WordChars, MaxWordLen)
        \cup UNION {CaseVariants(kw.word) : kw \in KeywordWords}
        \cup {<<"g","r","a","p","h","s">>, <<"n","o","d","e","1">>}

\* a keyword followed by fragments of an attr_list
AttrStmtInputs ==
    {<<kw>> \o Flatten(fs) :
        kw \in {Keyword("Graph"), Keyword("Node"), Keyword("Edge"), Keyword("Strict")},
        fs \in BoundedSeq(AttrFragments, MaxAttrStmtFrags)}

TokenInputs ==
    BoundedSeq(HeadTokens, MaxHeadLen) \cup BoundedSeq(AListTokens, MaxAListLen)
    \cup AttrListInputs \cup PortInputs \cup AttrStmtInputs

(***************************************************************************)
(* Spec: a source string is tokenized and the parsers are called on the    *)
(* tokens.  SpecTokens: the parsers are called on a token slice directly.  *)
(***************************************************************************)
Init ==
    /\ code \in Sources
    /\ idx = 0
    /\ parse_line = 0
    /\ col = 0
    /\ token_buffer = <<>>
    /\ tokens = <<>>
    /\ handling_double_quote = FALSE
    /\ espace_next_char = FALSE
    /\ possible_edge = FALSE
    /\ tk_result = Running
    /\ tokens_vec = <<>>
    /\ ret = NoCall

Next ==
    \/ EdgeOperator
    \/ Backslash
    \/ Escaped
    \/ InQuote
    \/ CloseQuote
    \/ OpenQuote
    \/ DelimiterChar
    \/ BufferChar
    \/ TokenizeReturn
    \/ CallParseHead
    \/ CallParse
    \/ CallAttributeParse
    \/ CallAListParse
    \/ CallAttrListParse
    \/ CallCompassParse
    \/ CallPortParse
    \/ CallNodeIdParse
    \/ CallAttrStmtParse

Spec == Init /\ [][Next]_vars

InitTokens ==
    /\ code = <<>>
    /\ idx = 0
    /\ parse_line = 0
    /\ col = 0
    /\ token_buffer = <<>>
    /\ tokens = <<>>
    /\ handling_double_quote = FALSE
    /\ espace_next_char = FALSE
    /\ possible_edge = FALSE
    /\ tk_result = [status |-> "NotRun", tokens |-> <<>>, err |-> <<>>]
    /\ tokens_vec \in TokenInputs
    /\ ret = NoCall

NextTokens ==
    \/ CallParseHead
    \/ CallParse
    \/ CallAttributeParse
    \/ CallAListParse
    \/ CallAttrListParse
    \/ CallCompassParse
    \/ CallPortParse
    \/ CallNodeIdParse
    \/ CallAttrStmtParse

SpecTokens == InitTokens /\ [][NextTokens]_vars

\* chars_to_token or is_proper_identifier is called on a lexeme
InitChars ==
    /\ code \in Lexemes
    /\ idx = 0
    /\ parse_line \in 0..1
    /\ col \in 0..1
    /\ token_buffer = <<>>
    /\ tokens = <<>>
    /\ handling_double_quote = FALSE
    /\ espace_next_char = FALSE
    /\ possible_edge = FALSE
    /\ tk_result = [status |-> "NotRun", tokens |-> <<>>, err |-> <<>>]
    /\ tokens_vec = <<>>
    /\ ret = NoCall

NextChars ==
    \/ CallCharsToToken
    \/ CallIsProperIdentifier

SpecChars == InitChars /\ [][NextChars]_vars


(***************************************************************************)
(* Properties.                                                             *)
(***************************************************************************)
TokenizeDone == tk_result.status \in {"Ok", "Err"}

\* C1: when the input ends inside a quoted string, tokenize returns a
\* TokenizeError and never Ok(tokens).
C1_UnterminatedQuoteIsError ==
    (TokenizeDone /\ idx = Len(code) /\ handling_double_quote)
        => tk_result.status = "Err"

\* C2: tokenize emits every lexeme, the one pending at the end of the input
\* included: the source a->b gives exactly [Identifier(a), DirectedEdge, Identifier(b)].
C2_PendingLexemeEmitted ==
    (TokenizeDone /\ code = Doc_a_arrow_b)
        => tk_result = OkTokens(<<Identifier(<<"a">>), Delimiter("DirectedEdge"),
                                  Identifier(<<"b">>)>>)

\* C3: a '-' outside a quoted string that is not followed by '-' or '>', be it
\* followed by another character or the last character of the input, makes
\* tokenize fail; it never returns tokens holding an edge operator for it.
C3_LoneDashIsError ==
    (TokenizeDone /\ possible_edge) => tk_result.status = "Err"

\* the statement `from -- to` between two plain nodes
UndirectedEdgeStmt(from, to) ==
    EdgeStmt(EdgeStmtSide_NodeId(NodeId(<<from>>, None)),
             EdgeRhs("UnDirected", EdgeStmtSide_NodeId(NodeId(<<to>>, None)), None),
             None)

\* C4: tokenizing and parsing `graph { a -- b; b -- c; }` yields type Graph,
\* strict=false, id=None and statements [EdgeStmt(a--b), EdgeStmt(b--c)].
C4_EdgeStatementsParsed ==
    (code = Doc_graph_edges /\ ret.fn = "parse")
        => ret.out = OkGraph(DotGraph(Some("Graph"), FALSE, None,
                        Some(<<UndirectedEdgeStmt("a", "b"), UndirectedEdgeStmt("b", "c")>>)))

\* C5: for every token sequence the top-level parse returns one DotGraph or
\* one error value; a head that fails to validate is an Err, never a panic.
C5_ParseReturnsResult ==
    ret.fn = "parse"
        => /\ ret.out.status \in {"Ok", "Err"}
           /\ parse_head(tokens_vec).status = "Err" => ret.out.status = "Err"

\* C6: parse_head is total: it returns Ok or a ParserError for every token
\* sequence, and Err for fewer than 3 tokens, a first token other than
\* strict/graph/digraph, or a last token other than '}'.
C6_ParseHeadTotal ==
    ret.fn = "parse_head"
        => /\ ret.out.status \in {"Ok", "Err"}
           /\ ( \/ Len(tokens_vec) < 3
                \/ tokens_vec[1] \notin {Keyword("Strict"), Keyword("Graph"),
                                         Keyword("Digraph")}
                \/ tokens_vec[Len(tokens_vec)] # Delimiter("ClosedCurlyBrace") )
                  => ret.out.status = "Err"

\* C7: for the source `graph { ` the parse fails with a structural error whose
\* reason cites the missing '}'.
C7_MissingBraceCited ==
    (code = Doc_no_closing_brace /\ ret.fn \in {"parse_head", "parse"})
        => /\ ret.out.status = "Err"
           /\ ret.out.err[1].reason = "Expected } at the end"

\* position in tokens_vec of the graph / digraph keyword of an accepted head
KeywordIndex == IF tokens_vec[1] = Keyword("Strict") THEN 2 ELSE 1

\* C8: when the head parser succeeds, strict_mode is true exactly when the
\* first token is strict, graph_type is the graph/digraph keyword found, id is
\* the identifier between that keyword and '{' (None when '{' follows the
\* keyword), and `strict graph { }` gives strict=true, id=None, no statements.
C8_HeadFields ==
    (ret.fn = "parse_head" /\ ret.out.status = "Ok")
        => LET dg == ret.out.dg[1]
               kw == tokens_vec[KeywordIndex]
               after == tokens_vec[KeywordIndex + 1]
           IN  /\ dg.strict_mode <=> tokens_vec[1] = Keyword("Strict")
               /\ kw.t = "Keyword"
               /\ kw.v \in {<<"Graph">>, <<"Digraph">>}
               /\ dg.graph_type = Some(kw.v[1])
               /\ IF after = Delimiter("OpenCurlyBrace")
                  THEN dg.id = None
                  ELSE /\ after.t = "Identifier"
                       /\ dg.id = Some(after.v)
                       /\ tokens_vec[KeywordIndex + 2] = Delimiter("OpenCurlyBrace")
               /\ tokens_vec = <<Keyword("Strict"), Keyword("Graph"),
                                 Delimiter("OpenCurlyBrace"), Delimiter("ClosedCurlyBrace")>>
                      => dg = DotGraph(Some("Graph"), TRUE, None, Some(<<>>))

\* C8 witness: parse_head has accepted `strict graph { }`.
C8_Witness ==
    /\ ret.fn = "parse_head"
    /\ ret.out.status = "Ok"
    /\ tokens_vec = <<Keyword("Strict"), Keyword("Graph"),
                      Delimiter("OpenCurlyBrace"), Delimiter("ClosedCurlyBrace")>>

\* the brace depth after each token of tv, starting from depth
RECURSIVE BraceDepths(_, _)
BraceDepths(tv, depth) ==
    IF tv = <<>> THEN <<>>
    ELSE LET d == IF Head(tv) = Delimiter("OpenCurlyBrace") THEN depth + 1
                  ELSE IF Head(tv) = Delimiter("ClosedCurlyBrace") THEN depth - 1
                  ELSE depth
         IN  <<d>> \o BraceDepths(Tail(tv), d)

\* the braces of tv match, and the first '{' is closed by the last token only
BracesBalanced(tv) ==
    LET ds == BraceDepths(tv, 0)
    IN  /\ tv # <<>>
        /\ ds[Len(ds)] = 0
        /\ \A i \in 1..(Len(ds) - 1) :
              ds[i] >= 0 /\ (ds[i] = 0 => \A j \in 1..i : ds[j] = 0)

\* C9: a token sequence with an unmatched extra brace after the head, such as
\* `graph { } }` or `graph { { }`, is never accepted with Ok.
C9_UnbalancedBracesRejected ==
    (ret.fn = "parse" /\ ~BracesBalanced(tokens_vec)) => ret.out.status # "Ok"

\* C10: AList::parse does not stop at a missing separator: for ID = ID ID = ID
\* the result holds both attributes in order, as with a ';' or ',' between them.
C10_NoSeparatorContinues ==
    ( /\ ret.fn = "AList::parse"
      /\ Len(tokens_vec) = 6
      /\ \A i \in {1, 3, 4, 6} : tokens_vec[i].t = "Identifier"
      /\ \A i \in {2, 5} : tokens_vec[i] = Delimiter("Equal") )
        => ret.out = Some(ParseResult(
                        [items |-> <<Attribute(tokens_vec[1].v, tokens_vec[3].v),
                                     Attribute(tokens_vec[4].v, tokens_vec[6].v)>>],
                        <<>>))

\* C11: AttrList::parse accepts a bracket group without an AList: `[` `]`
\* alone, or as one group among several as in `[a=b][]`, matches, contributes
\* no attribute and leaves the tokens after `]` as remaining.
C11_EmptyGroupAccepted ==
    ret.fn = "AttrList::parse"
        => /\ tokens_vec = <<Delimiter("OpenSquareBrace"), Delimiter("ClosedSquareBrace")>>
                  => ret.out = Some(ParseResult([items |-> <<>>], <<>>))
           /\ tokens_vec = <<Delimiter("OpenSquareBrace"), Identifier(<<"a">>),
                             Delimiter("Equal"), Identifier(<<"b">>),
                             Delimiter("ClosedSquareBrace"),
                             Delimiter("OpenSquareBrace"), Delimiter("ClosedSquareBrace")>>
                  => ret.out = Some(ParseResult([items |-> <<Attribute(<<"a">>, <<"b">>)>>],
                                                <<>>))

\* the grammar of the specification, read greedily: AList is
\* Attribute [(';' | ',')] [AList], a group is '[' AList ']'
IsSeparator(tok) == tok = Delimiter("Semicolon") \/ tok = Delimiter("Comma")

RECURSIVE GrammarAList(_)
GrammarAList(input) ==
    IF ~( /\ Len(input) >= 3
          /\ input[1].t = "Identifier"
          /\ input[2] = Delimiter("Equal")
          /\ input[3].t = "Identifier" )
    THEN None
    ELSE LET attr == Attribute(input[1].v, input[3].v)
             after == IF Len(input) >= 4 /\ IsSeparator(input[4])
                      THEN SliceFrom(input, 4)
                      ELSE SliceFrom(input, 3)
             more == GrammarAList(after)
         IN  IF more = None
             THEN Some(ParseResult([items |-> <<attr>>], after))
             ELSE Some(ParseResult([items |-> <<attr>> \o more[1].result.items],
                                   more[1].remaining))

\* one non-empty bracket group at the start of input
GrammarGroup(input) ==
    IF input = <<>> \/ input[1] # Delimiter("OpenSquareBrace")
    THEN None
    ELSE LET inner == GrammarAList(SliceFrom(input, 1))
         IN  IF inner = None
             THEN None
             ELSE IF inner[1].remaining = <<>>
                     \/ inner[1].remaining[1] # Delimiter("ClosedSquareBrace")
                  THEN None
                  ELSE Some(ParseResult(inner[1].result, SliceFrom(inner[1].remaining, 1)))

\* the k >= 1 consecutive non-empty bracket groups at the start of input
RECURSIVE GrammarGroups(_)
GrammarGroups(input) ==
    LET group == GrammarGroup(input)
    IN  IF group = None
        THEN None
        ELSE LET more == GrammarGroups(group[1].remaining)
             IN  IF more = None
                 THEN group
                 ELSE Some(ParseResult(
                          [items |-> group[1].result.items \o more[1].result.items],
                          more[1].remaining))

\* C12: for k >= 1 consecutive non-empty bracket groups AttrList::parse returns
\* the concatenation of the groups' attributes in source order, and as
\* remaining the tokens after the last `]`.
C12_GroupsFlatten ==
    (ret.fn = "AttrList::parse" /\ GrammarGroups(tokens_vec) # None)
        => ret.out = GrammarGroups(tokens_vec)

\* C13: when the token after `:` is an identifier spelling a compass point,
\* Port::parse returns Port{id=None, compass=that point} and consumes exactly
\* the two tokens, whatever follows; it never returns an id for such a token.
C13_CompassBeforeId ==
    ( /\ ret.fn = "Port::parse"
      /\ Len(tokens_vec) >= 2
      /\ tokens_vec[1] = Delimiter("Colon")
      /\ tokens_vec[2].t = "Identifier"
      /\ tokens_vec[2].v \in CompassNames )
        => /\ ret.out # None
           /\ ret.out[1].result.id = None
           /\ ret.out[1].result.compass = CompassOf(tokens_vec[2].v)
           /\ ret.out[1].result.compass # None
           /\ ret.out[1].remaining = SliceFrom(tokens_vec, 2)

\* C13 witness: Port::parse was called on `:` `n` `p` `:`.
C13_Witness ==
    /\ ret.fn = "Port::parse"
    /\ tokens_vec = <<Delimiter("Colon"), Identifier(<<"n">>), Identifier(<<"p">>),
                      Delimiter("Colon")>>
    /\ ret.out # None

\* C14: when the token after `:` is an identifier that is no compass point,
\* Port::parse succeeds: with id and compass, consuming 4 tokens, when the next
\* two tokens are `:` and a compass identifier, and otherwise (also when they
\* are `:` and another identifier) with the id alone, consuming 2 tokens.
C14_IdThenOptionalCompass ==
    ( /\ ret.fn = "Port::parse"
      /\ Len(tokens_vec) >= 2
      /\ tokens_vec[1] = Delimiter("Colon")
      /\ tokens_vec[2].t = "Identifier"
      /\ tokens_vec[2].v \notin CompassNames )
        => IF /\ Len(tokens_vec) >= 4
              /\ tokens_vec[3] = Delimiter("Colon")
              /\ tokens_vec[4].t = "Identifier"
              /\ tokens_vec[4].v \in CompassNames
           THEN ret.out = Some(ParseResult(
                              Port(Some(tokens_vec[2].v), CompassOf(tokens_vec[4].v)),
                              SliceFrom(tokens_vec, 4)))
           ELSE ret.out = Some(ParseResult(Port(Some(tokens_vec[2].v), None),
                                           SliceFrom(tokens_vec, 2)))

\* C15: every Port returned by Port::parse, and every port inside a NodeId
\* returned by NodeId::parse, has at least one of id and compass.
C15_PortNeverEmpty ==
    /\ (ret.fn = "Port::parse" /\ ret.out # None)
           => (ret.out[1].result.id # None \/ ret.out[1].result.compass # None)
    /\ (ret.fn = "NodeId::parse" /\ ret.out # None)
           => \/ ret.out[1].result.port = None
              \/ ret.out[1].result.port[1].id # None
              \/ ret.out[1].result.port[1].compass # None

\* C15 witness: NodeId::parse returned a node with an id-only port.
C15_Witness ==
    /\ ret.fn = "NodeId::parse"
    /\ ret.out # None
    /\ ret.out[1].result.port # None
    /\ ret.out[1].result.port[1].compass = None


\* C16: chars_to_token turns every upper/lower case variant of the six
\* keywords graph, node, edge, digraph, subgraph and strict into the same
\* Keyword token, never into an Identifier.
C16_KeywordsCaseInsensitive ==
    ret.fn = "chars_to_token"
        => \A kw \in KeywordWords :
               code \in CaseVariants(kw.word)
                   => /\ ret.out.kind = "Some"
                      /\ ret.out.tok = <<Keyword(kw.name)>>

\* C16 witness: chars_to_token was called on `GrApH`.
C16_Witness ==
    /\ ret.fn = "chars_to_token"
    /\ code = <<"G","r","A","p","H">>
    /\ ret.out.kind = "Some"


\* source with the characters ws inserted after its first i characters
InsertAt(source, i, ws) == SubSeq(source, 1, i) \o ws \o SubSeq(source, i + 1, Len(source))

\* non-empty runs of spaces and newlines
Whitespace == BoundedSeq({" ", "\n"}, MaxInsert) \ {<<>>}

\* after i characters no quoted string, escape, edge operator or lexeme is open
TokenBoundary(source, i) ==
    LET st == tokenize_after(source, i)
    IN  /\ st.result.status = "Running"
        /\ ~st.handling_double_quote
        /\ ~st.espace_next_char
        /\ ~st.possible_edge
        /\ \/ st.token_buffer = <<>>
           \/ i = Len(source)
           \/ source[i + 1] = "\""
           \/ DelimOf(source[i + 1]) # <<>>

\* the source was tokenized successfully and ends with `}`
OkAndClosed ==
    /\ tk_result.status = "Ok"
    /\ code # <<>>
    /\ code[Len(code)] = "}"

\* C17: for a document that tokenizes successfully and ends with `}`,
\* inserting one or more spaces or newlines at a token boundary outside a
\* quoted string leaves the sequence of tokens unchanged.
C17_WhitespaceInsensitive ==
    OkAndClosed
        => \A i \in 0..Len(code) : \A ws \in Whitespace :
               TokenBoundary(code, i) => tokenize(InsertAt(code, i, ws)) = tk_result


\* the loop's variables before the character read last
before_last == tokenize_after(code, idx - 1)

\* C18: when an escape is pending the next character is buffered verbatim and
\* the flag is cleared whatever the character is, a backslash included: in
\* the source "a\\" the second quote closes the string and one Identifier is
\* emitted.
C18_EscapeClearedByAnyChar ==
    /\ (tk_result.status = "Running" /\ idx >= 1 /\ before_last.espace_next_char)
           => /\ ~espace_next_char
              /\ token_buffer = Append(before_last.token_buffer, code[idx])
    /\ (TokenizeDone /\ code = Doc_escaped_backslash)
           => tk_result = OkTokens(<<Identifier(<<"a", "\\", "\\">>)>>)

\* the character read last went through the branch that closes a quoted string
QuoteClosed ==
    /\ tk_result.status # "NotRun"
    /\ idx >= 1
    /\ before_last.result.status = "Running"
    /\ before_last.handling_double_quote
    /\ ~before_last.espace_next_char
    /\ code[idx] = "\""

\* where that string's opening quote is in the source, and the text between the quotes
OpeningQuote == idx - Len(before_last.token_buffer)
QuotedText == SubSeq(code, OpeningQuote + 1, idx - 1)

\* the string was emitted: one more token, the Identifier of the text between the quotes
QuotedTextEmitted ==
    /\ tk_result.status # "Err"
    /\ code[OpeningQuote] = "\""
    /\ tokens = Append(before_last.tokens, Identifier(QuotedText))

\* C19: a closed quoted string is emitted as exactly one Identifier whose
\* text is the source text strictly between the opening and the closing
\* quote: spaces, delimiters, `-` and escaped quotes (with their backslash) are
\* kept as they are and give no other token.  The empty string, which the
\* identifier rules reject, is left out.
C19_ClosedQuoteEmitted == (QuoteClosed /\ QuotedText # <<>>) => QuotedTextEmitted

\* C20: an unquoted numeral with a leading `-` followed by a delimiter is
\* accepted by tokenize and emitted as one Identifier: x=-1; gives
\* [Identifier(x), Equal, Identifier(-1), Semicolon].
C20_NegativeNumeralAccepted ==
    (TokenizeDone /\ code = Doc_negative_numeral)
        => tk_result = OkTokens(<<Identifier(<<"x">>), Delimiter("Equal"),
                                  Identifier(<<"-", "1">>), Delimiter("Semicolon")>>)


\* C21: each of the ten compass spellings written unquoted after `:` is
\* tokenized to an Identifier that Compass::parse maps to its Compass value:
\* a:_; gives [Identifier(a), Colon, Identifier(_), Semicolon] and the third
\* token is matched as Compass::Underscore.
C21_CompassSpellingsTokenized ==
    (TokenizeDone /\ code = Doc_port_underscore)
        => /\ tk_result = OkTokens(<<Identifier(<<"a">>), Delimiter("Colon"),
                                     Identifier(<<"_">>), Delimiter("Semicolon")>>)
           /\ Compass_parse(SubSeq(tk_result.tokens, 3, 3))
                  = Some(ParseResult("Underscore", <<>>))


\* the number of newline characters among the first n characters of source
RECURSIVE NewlinesIn(_, _)
NewlinesIn(source, n) ==
    IF n = 0 THEN 0
    ELSE NewlinesIn(source, n - 1) + (IF source[n] = "\n" THEN 1 ELSE 0)

\* where the lexeme cited by the error starts in the source: it ends with the
\* character read last (a closing quote, a wrong edge character) or just before it
FaultyLexemeStart ==
    LET lexeme == tk_result.err[1].token
    IN  IF SubSeq(code, idx - Len(lexeme) + 1, idx) = lexeme
        THEN idx - Len(lexeme) + 1
        ELSE idx - Len(lexeme)

\* C22: the line of every TokenizeError returned by tokenize is the number of
\* newline characters of the source before the faulty lexeme (newlines inside
\* earlier quoted strings counted), so an invalid identifier ended by a
\* newline is reported on its own line.
C22_ErrorLineCountsNewlines ==
    tk_result.status = "Err"
        => tk_result.err[1].line = NewlinesIn(code, FaultyLexemeStart - 1)


\* C23: every whitespace character outside a quoted string, tab and carriage
\* return as well as space and newline, flushes the pending lexeme and is
\* discarded: a<tab>=<tab>b; tokenizes to the tokens of `a = b;`.
C23_TabIsWhitespace ==
    (TokenizeDone /\ code = Doc_tabs)
        => /\ tk_result = tokenize(Doc_spaces)
           /\ tk_result = OkTokens(<<Identifier(<<"a">>), Delimiter("Equal"),
                                     Identifier(<<"b">>), Delimiter("Semicolon")>>)


\* the two characters read last are `""` and the first of them was read
\* outside quote mode
EmptyQuotesRead ==
    /\ tk_result.status # "NotRun"
    /\ idx >= 2
    /\ code[idx - 1] = "\""
    /\ code[idx] = "\""
    /\ tokenize_after(code, idx - 2).result.status = "Running"
    /\ ~tokenize_after(code, idx - 2).handling_double_quote

\* C24: an empty quoted string `""` outside quote mode, anywhere in the
\* source, makes tokenize fail with a TokenizeError; no Identifier with empty
\* text is emitted for it.
C24_EmptyQuotesRejected ==
    EmptyQuotesRead
        => /\ tk_result.status = "Err"
           /\ Identifier(<<>>) \notin Range(tokens)

\* C24 witness: tokenize read a"" and failed with "Empty quotes" after emitting a.
C24_Witness ==
    /\ EmptyQuotesRead
    /\ code = <<"a", "\"", "\"">>
    /\ tokens = <<Identifier(<<"a">>)>>
    /\ tk_result.status = "Err"
    /\ tk_result.err[1].reason = "Empty quotes"


\* C27: in every tokenizer state where possible_edge is set, the last token
\* is the UndirectedEdge placeholder pushed for that `-` and the pending
\* buffer is empty, so the pop on the next character removes the placeholder
\* and no token of earlier source text.
C27_PlaceholderIsLast ==
    (tk_result.status \in {"Running", "Ok"} /\ possible_edge)
        => /\ tokens # <<>>
           /\ tokens[Len(tokens)] = Delimiter("UndirectedEdge")
           /\ token_buffer = <<>>
           /\ code[idx] = "-"

\* C27 witness: the `-` of `a-` was read: the lexeme a was emitted before the placeholder.
C27_Witness ==
    /\ tk_result.status = "Running"
    /\ possible_edge
    /\ SubSeq(code, 1, idx) = <<"a", "-">>
    /\ tokens = <<Identifier(<<"a">>), Delimiter("UndirectedEdge")>>

\* the keyword spellings in any case
KeywordSpellings == UNION {CaseVariants(kw.word) : kw \in KeywordWords}

\* C28: a quoted string whose content spells a keyword in any case is
\* emitted by tokenize as an Identifier with that text, never as a Keyword:
\* "graph" gives Identifier(graph), "Node" gives Identifier(Node).
C28_QuotedKeywordIsIdentifier ==
    (QuoteClosed /\ QuotedText \in KeywordSpellings)
        => /\ tk_result.status # "Err"
           /\ tokens = Append(before_last.tokens, Identifier(QuotedText))

\* C28 witness: the closing quote of "Node" was read.
C28_Witness ==
    /\ QuoteClosed
    /\ code = Doc_quoted_Node
    /\ tokens = <<Identifier(<<"N", "o", "d", "e">>)>>


\* C29: every Identifier in a token sequence returned by tokenize has
\* non-empty text, so every Attribute that Attribute::parse builds from
\* tokenize output has a non-empty lhs and a non-empty rhs.
C29_IdentifiersNonEmpty ==
    /\ tk_result.status = "Ok"
           => \A i \in 1..Len(tk_result.tokens) :
                  tk_result.tokens[i].t = "Identifier" => tk_result.tokens[i].v # <<>>
    /\ (tk_result.status = "Ok" /\ ret.fn = "Attribute::parse" /\ ret.out # None)
           => /\ ret.out[1].result.lhs # <<>>
              /\ ret.out[1].result.rhs # <<>>

\* C29 witness: Attribute::parse built a=b from the tokens of `a=b c=d`.
C29_Witness ==
    /\ code = Doc_a_list
    /\ tk_result.status = "Ok"
    /\ ret.fn = "Attribute::parse"
    /\ ret.out = Some(ParseResult(Attribute(<<"a">>, <<"b">>),
                                  SliceFrom(tk_result.tokens, 3)))


\* the grammar parsers and what each says about its range expressions
GrammarParsers ==
    {"Compass::parse", "Port::parse", "NodeId::parse", "Attribute::parse",
     "AList::parse", "AttrList::parse", "AttrStmt::parse"}

InBounds(fn, input) ==
    CASE fn = "Compass::parse" -> Compass_in_bounds(input)
      [] fn = "Port::parse" -> Port_in_bounds(input)
      [] fn = "NodeId::parse" -> NodeId_in_bounds(input)
      [] fn = "Attribute::parse" -> Attribute_in_bounds(input)
      [] fn = "AList::parse" -> AList_in_bounds(input)
      [] fn = "AttrList::parse" -> AttrList_in_bounds(input)
      [] fn = "AttrStmt::parse" -> AttrStmt_in_bounds(input)

\* C25: every grammar parser is total over token slices: for every input,
\* the empty slice and slices shorter than the production included, it
\* returns a match or no match and evaluates no range past the end of a slice.
C25_ParsersTotal ==
    ret.fn \in GrammarParsers
        => /\ InBounds(ret.fn, tokens_vec)
           /\ \/ ret.out = None
              \/ /\ Len(ret.out) = 1
                 /\ DOMAIN ret.out[1] = {"result", "remaining"}

\* C25 witness: AList::parse took &input[4..] of the four tokens a = b ;
C25_Witness ==
    /\ ret.fn = "AList::parse"
    /\ tokens_vec = <<Identifier(<<"a">>), Delimiter("Equal"), Identifier(<<"b">>),
                      Delimiter("Semicolon")>>
    /\ ret.out = Some(ParseResult([items |-> <<Attribute(<<"a">>, <<"b">>)>>], <<>>))

\* C26: every successful parse by a grammar parser returns a remaining that
\* is a strict suffix of its input: at least one token was consumed and the
\* rest is the input's tail, unchanged.
C26_RemainingStrictSuffix ==
    (ret.fn \in GrammarParsers /\ ret.out # None)
        => \E k \in 1..Len(tokens_vec) : ret.out[1].remaining = SliceFrom(tokens_vec, k)

\* C26 witness: AttrStmt::parse matched `node [ a = b ]` and left the `;`.
C26_Witness ==
    /\ ret.fn = "AttrStmt::parse"
    /\ tokens_vec = <<Keyword("Node"), Delimiter("OpenSquareBrace"), Identifier(<<"a">>),
                      Delimiter("Equal"), Identifier(<<"b">>),
                      Delimiter("ClosedSquareBrace"), Delimiter("Semicolon")>>
    /\ ret.out # None
    /\ ret.out[1].remaining = <<Delimiter("Semicolon")>>


\* C30: after a successful head parse the statement span computed by parse
\* is the tokens strictly between the outer braces: the token just before
\* index start_idx is the head's `{` and the span leaves out the final `}`.
C30_StatementSpanBetweenBraces ==
    (ret.fn = "parse" /\ ret.out.status = "Ok")
        => /\ tokens_vec[start_idx(ret.out.dg[1])] = Delimiter("OpenCurlyBrace")
           /\ stmt_tokens(tokens_vec, ret.out.dg[1])
                  = SubSeq(tokens_vec, start_idx(ret.out.dg[1]) + 1, Len(tokens_vec) - 1)

====
